---- MODULE Spec2Model ----
(***************************************************************************)
(* Model of src/nested/map/mom.rs: the zuniq codec (trait ZUniqHashT,      *)
(* implemented for u32 and u64) and the vector-backed multi-order map      *)
(* (trait Mom, struct MomVecImpl).                                         *)
(*                                                                         *)
(* A machine word of the hash type Z is modelled as the set of the         *)
(* positions of its set bits (bit 0 is the least significant one), so that *)
(* 32-bit and 64-bit words keep their exact width: a shift drops the bits  *)
(* that leave the word, the order of two words is the order of the         *)
(* unsigned integers they stand for.                                       *)
(***************************************************************************)
EXTENDS Integers, Sequences, FiniteSets, TLC

VARIABLES nbytes, depth, cells, entries, op, arg, ret

vars == <<nbytes, depth, cells, entries, op, arg, ret>>

-----------------------------------------------------------------------------
(* Words of N_BITS bits                                                    *)

Min(S) == CHOOSE x \in S : \A y \in S : x <= y

Max(S) == 0 - Min({0 - x : x \in S})

\* PrimInt::zero() and PrimInt::one()
zero == {}

one == {0}

\* v << k on a word of nbits bits: the bits shifted out of the word are lost
unsigned_shl(w, k, nbits) == {i + k : i \in {j \in w : j + k < nbits}}

\* v >> k
unsigned_shr(w, k) == {i - k : i \in {j \in w : j >= k}}

\* a | b
BitOr(a, b) == a \cup b

\* PrimInt::trailing_zeros: the width of the word when no bit is set
trailing_zeros(w, nbits) == IF w = {} THEN nbits ELSE Min(w)

\* Ord on unsigned words: a < b
WordLess(a, b) ==
    /\ a # b
    /\ Max((a \ b) \cup (b \ a)) \in b

\* Ordering of a.cmp(&b)
Cmp(a, b) == IF a = b THEN "Equal" ELSE IF WordLess(a, b) THEN "Less" ELSE "Greater"

-----------------------------------------------------------------------------
(* trait ZUniqHashT; the implementing type is given by its size in bytes   *)

N_RESERVED_BITS == 2

DIM == 2

N_D0_CELLS == 12

N_D0_BITS == 4

\* The implementations: `impl ZUniqHashT for u32 {}', `impl ... for u64 {}'
HashTypes == {4, 8}

N_BITS(nb) == nb * 8

MAX_DEPTH_NoReserved(nb) == (N_BITS(nb) - N_D0_BITS) \div DIM

MAX_DEPTH(nb) == (N_BITS(nb) - (N_RESERVED_BITS + N_D0_BITS)) \div DIM

\* on u8 values, in the range where the shift does not leave the byte
mult_by_dim(v) == v * 2

div_by_dim(v) == v \div 2

shift_NoDim(delta_depth) == delta_depth

shift(delta_depth) == mult_by_dim(delta_depth)

delta_with_depth_max(nb, d) == MAX_DEPTH(nb) - d

shift_from_depth_max(nb, d) == shift(delta_with_depth_max(nb, d))

from_zuniq(nb, zuniq) ==
    LET n_trailing_zero == trailing_zeros(zuniq, N_BITS(nb))
        delta_depth == div_by_dim(n_trailing_zero)
        d == MAX_DEPTH(nb) - delta_depth
        hash == unsigned_shr(zuniq, n_trailing_zero + 1)
    IN  <<d, hash>>

depth_from_zuniq(nb, zuniq) ==
    LET n_trailing_zero == trailing_zeros(zuniq, N_BITS(nb))
        delta_depth == div_by_dim(n_trailing_zero)
    IN  MAX_DEPTH(nb) - delta_depth

to_zuniq_NoSentinel(nb, d, hash) ==
    unsigned_shl(unsigned_shl(hash, 1, N_BITS(nb)), shift_from_depth_max(nb, d), N_BITS(nb))

to_zuniq(nb, d, hash) ==
    LET zuniq == BitOr(unsigned_shl(hash, 1, N_BITS(nb)), one)
    IN  unsigned_shl(zuniq, shift_from_depth_max(nb, d), N_BITS(nb))

are_overlapping_cells_HalfShift(depth_l, hash_l, depth_r, hash_r) ==
    IF depth_l = depth_r THEN hash_l = hash_r
    ELSE IF depth_l < depth_r
         THEN hash_l = unsigned_shr(hash_r, depth_r - depth_l)
         ELSE hash_r = unsigned_shr(hash_l, depth_l - depth_r)

are_overlapping_cells(depth_l, hash_l, depth_r, hash_r) ==
    IF depth_l = depth_r THEN hash_l = hash_r
    ELSE IF depth_l < depth_r
         THEN hash_l = unsigned_shr(hash_r, (depth_r - depth_l) * 2)
         ELSE hash_r = unsigned_shr(hash_l, (depth_l - depth_r) * 2)

are_overlapping(nb, zuniq_l, zuniq_r) ==
    LET l == from_zuniq(nb, zuniq_l)
        r == from_zuniq(nb, zuniq_r)
    IN  are_overlapping_cells(l[1], l[2], r[1], r[2])

-----------------------------------------------------------------------------
(* trait Mom and its implementation MomVecImpl<Z, V>.  An entry (Z, V) is  *)
(* the record [z, v]; positions in `entries' count from 0 as in the code.  *)

Ok(x) == [tag |-> "Ok", val |-> x]

Err(e) == [tag |-> "Err", err |-> e]

Some(x) == [tag |-> "Some", val |-> x]

None == [tag |-> "None"]

\* a failed bounds or overflow check
Panic(m) == [tag |-> "Panic", msg |-> m]

\* self.entries[i]
At(es, i) == es[i + 1]

\* self.entries.len()
Length(es) == Len(es)

\* MomVecImpl::zuniqs
zuniqs(es) == [i \in 1 .. Len(es) |-> es[i].z]

\* slice::binary_search_by(|&(z, _)| z.cmp(&zuniq)): the outcomes of a
\* bisection of [lo, hi) whatever position it probes.  On a strictly
\* ascending slice there is one outcome, Ok(i) with the position of the match
\* or Err(i) with the position where the key can be inserted; on any other
\* slice the outcome is left open by the library.
RECURSIVE Bisect(_, _, _, _)
Bisect(es, zuniq, lo, hi) ==
    IF lo >= hi
    THEN {Err(lo)}
    ELSE UNION {
           LET c == Cmp(At(es, mid).z, zuniq)
           IN  IF c = "Equal" THEN {Ok(mid)}
               ELSE IF c = "Less" THEN Bisect(es, zuniq, mid + 1, hi)
               ELSE Bisect(es, zuniq, lo, mid)
           : mid \in lo .. (hi - 1)}

binary_search_by(es, zuniq) == Bisect(es, zuniq, 0, Length(es))

\* (right neighbour never looked at)
CellContaining_LeftOnly(nb, es, hash_at_depth_max, bs) ==
    IF bs.tag = "Ok"
    THEN Some(At(es, bs.val))
    ELSE LET i == bs.err
         IN  IF i > 0 /\ are_overlapping(nb, hash_at_depth_max, At(es, i - 1).z)
             THEN Some(At(es, i - 1))
             ELSE None

\* the body of get_cell_containing_unsafe after the binary search returned bs
CellContaining(nb, es, hash_at_depth_max, bs) ==
    IF bs.tag = "Ok"
    THEN Some(At(es, bs.val))
    ELSE LET i == bs.err
         IN  IF i > 0 /\ are_overlapping(nb, hash_at_depth_max, At(es, i - 1).z)
             THEN Some(At(es, i - 1))
             ELSE IF i < Length(es) /\ are_overlapping(nb, hash_at_depth_max, At(es, i).z)
             THEN Some(At(es, i))
             ELSE None

\* the results get_cell_containing_unsafe can return
get_cell_containing_unsafe(nb, es, hash_at_depth_max) ==
    {CellContaining(nb, es, hash_at_depth_max, bs) : bs \in binary_search_by(es, hash_at_depth_max)}

check_zuniq_depth_is_depth_max_AtMost(nb, dm, zuniq_at_depth_max) ==
    LET d == depth_from_zuniq(nb, zuniq_at_depth_max)
    IN  IF d <= dm
        THEN Ok(<<>>)
        ELSE Err([kind |-> "Wrong depth", zuniq |-> zuniq_at_depth_max, expected |-> dm, actual |-> d])

check_zuniq_depth_is_depth_max(nb, dm, zuniq_at_depth_max) ==
    LET d == depth_from_zuniq(nb, zuniq_at_depth_max)
    IN  IF d = dm
        THEN Ok(<<>>)
        ELSE Err([kind |-> "Wrong depth", zuniq |-> zuniq_at_depth_max, expected |-> dm, actual |-> d])

\* the results get_cell_containing can return
get_cell_containing(nb, dm, es, zuniq_at_depth_max) ==
    LET chk == check_zuniq_depth_is_depth_max(nb, dm, zuniq_at_depth_max)
    IN  IF chk.tag = "Ok"
        THEN {Ok(r) : r \in get_cell_containing_unsafe(nb, es, zuniq_at_depth_max)}
        ELSE {chk}

\* the loop of check_is_mom: l is the zuniq at position k, r the next one
RECURSIVE CheckPairs(_, _, _, _)
CheckPairs(nb, dm, zs, k) ==
    IF k + 1 > Len(zs)
    THEN Ok(<<>>)
    ELSE LET l == zs[k]
             r == zs[k + 1]
             dl == from_zuniq(nb, l)
             dr == from_zuniq(nb, r)
         IN  IF dl[1] < dm
             THEN Err([kind |-> "Element has a larger depth than MOM maximum depth",
                       l |-> l, depth_l |-> dl[1], depth_max |-> dm])
             ELSE IF ~WordLess(l, r)
             THEN Err([kind |-> "The MOM is not ordered", l |-> l, r |-> r])
             ELSE IF are_overlapping_cells(dl[1], dl[2], dr[1], dr[2])
             THEN Err([kind |-> "Overlapping elements in the MOM", l |-> l, r |-> r])
             ELSE CheckPairs(nb, dm, zs, k + 1)

\* l is never advanced: every entry is compared with the first one
RECURSIVE CheckPairs_FirstOnly(_, _, _, _)
CheckPairs_FirstOnly(nb, dm, zs, k) ==
    IF k + 1 > Len(zs)
    THEN Ok(<<>>)
    ELSE LET l == zs[1]
             r == zs[k + 1]
             dl == from_zuniq(nb, l)
             dr == from_zuniq(nb, r)
         IN  IF dl[1] < dm
             THEN Err([kind |-> "Element has a larger depth than MOM maximum depth",
                       l |-> l, depth_l |-> dl[1], depth_max |-> dm])
             ELSE IF ~WordLess(l, r)
             THEN Err([kind |-> "The MOM is not ordered", l |-> l, r |-> r])
             ELSE IF are_overlapping_cells(dl[1], dl[2], dr[1], dr[2])
             THEN Err([kind |-> "Overlapping elements in the MOM", l |-> l, r |-> r])
             ELSE CheckPairs_FirstOnly(nb, dm, zs, k + 1)

check_is_mom_FirstOnly(nb, dm, es) == CheckPairs_FirstOnly(nb, dm, zuniqs(es), 1)

check_is_mom(nb, dm, es) == CheckPairs(nb, dm, zuniqs(es), 1)

\* first loop of get_overlapped_cells, on range.start.  `range.start - 1' on
\* usize 0 fails the overflow check when the build has overflow checks, and
\* wraps to usize::MAX when it has none: then `> 0' holds and
\* self.entries[usize::MAX] fails the bounds check.
RECURSIVE ExpandLeft(_, _, _, _, _)
ExpandLeft(nb, es, zuniq, start, overflow_checks) ==
    IF start = 0
    THEN IF overflow_checks
         THEN Panic("attempt to subtract with overflow")
         ELSE Panic("index out of bounds")
    ELSE IF start - 1 > 0 /\ are_overlapping(nb, zuniq, At(es, start - 1).z)
         THEN ExpandLeft(nb, es, zuniq, start - 1, overflow_checks)
         ELSE Ok(start)

\* second loop of get_overlapped_cells, on range.end
RECURSIVE ExpandRight(_, _, _, _)
ExpandRight(nb, es, zuniq, end) ==
    IF end < Length(es) /\ are_overlapping(nb, zuniq, At(es, end).z)
    THEN ExpandRight(nb, es, zuniq, end + 1)
    ELSE end

\* the range the binary search outcome bs gives get_overlapped_cells
SeedRange(bs) ==
    IF bs.tag = "Ok"
    THEN [start |-> bs.val, end |-> bs.val + 1]
    ELSE [start |-> bs.err, end |-> bs.err]

\* the body of get_overlapped_cells after the binary search returned bs
OverlappedCells(nb, es, zuniq, bs, overflow_checks) ==
    LET range == SeedRange(bs)
        left == ExpandLeft(nb, es, zuniq, range.start, overflow_checks)
    IN  IF left.tag = "Panic"
        THEN left
        ELSE LET start == left.val
                 end == ExpandRight(nb, es, zuniq, range.end)
             IN  Ok([k \in 1 .. (end - start) |-> At(es, start + k - 1)])

\* what get_overlapped_cells can do: return Ok(the vector) or panic
get_overlapped_cells(nb, es, zuniq) ==
    {OverlappedCells(nb, es, zuniq, bs, oc) :
        bs \in binary_search_by(es, zuniq), oc \in BOOLEAN}

-----------------------------------------------------------------------------
(* Cells handed to the codec.  A cell is named by its path in the          *)
(* tessellation: the base cell, then one 2-bit digit per level.  The       *)
(* sampled paths are: base cell b, first digit f, every further digit g.   *)

CodecBases == {0, 3, 11}

CodecDigits == 0 .. 3

CodecFills == {0, 3}

CodecDepths(nb) == {0, 1, 2, MAX_DEPTH(nb) - 1, MAX_DEPTH(nb)}

\* the bits of the small number n, moved up by off positions
BitsAt(n, off) == {off + i : i \in {j \in 0 .. 3 : (n \div (2 ^ j)) % 2 = 1}}

Cell(d, b, f, g) ==
    [d |-> d, b |-> b, f |-> IF d >= 1 THEN f ELSE 0, g |-> IF d >= 2 THEN g ELSE 0]

\* the digit of the cell's path at level i (1 <= i <= c.d)
Digit(c, i) == IF i = 1 THEN c.f ELSE c.g

\* the hash of the cell: b * 4^d + the digits, two bits per level
Hash(c) ==
    BitsAt(c.b, 2 * c.d)
        \cup UNION {BitsAt(Digit(c, i), 2 * (c.d - i)) : i \in 1 .. c.d}

CellsFrom(depths, bases, digits, fills) ==
    {Cell(d, b, f, g) : d \in depths, b \in bases, f \in digits, g \in fills}

CodecCells(nb) == CellsFrom(CodecDepths(nb), CodecBases, CodecDigits, CodecFills)

\* a is b or an ancestor of b: the path of a is a prefix of the path of b
IsPrefix(a, b) ==
    /\ a.d <= b.d
    /\ a.b = b.b
    /\ \A i \in 1 .. a.d : Digit(a, i) = Digit(b, i)

Nested(a, b) == IsPrefix(a, b) \/ IsPrefix(b, a)

Zuniq(nb, c) == to_zuniq(nb, c.d, Hash(c))

-----------------------------------------------------------------------------
(* The codec called on its own: two cells are drawn, the operations are    *)
(* applied to them.                                                        *)

InitCodec ==
    /\ nbytes \in HashTypes
    /\ depth = 0
    /\ cells = <<>>
    /\ entries = <<>>
    /\ arg \in [l : CodecCells(nbytes), r : CodecCells(nbytes)]
    /\ op = "none"
    /\ ret = <<>>

\* An operation is called on the inputs drawn, and returns.  No operation
\* changes the inputs (the codec is pure, the map is read only), so a second
\* call would start from the same inputs: one call per behaviour reaches
\* every state calls in sequence reach.
Called(name) ==
    /\ op = "none"
    /\ op' = name
    /\ UNCHANGED <<nbytes, depth, cells, entries, arg>>

ToZuniq ==
    /\ Called("to_zuniq")
    /\ ret' = to_zuniq(nbytes, arg.l.d, Hash(arg.l))

FromZuniq ==
    /\ Called("from_zuniq")
    /\ ret' = from_zuniq(nbytes, to_zuniq(nbytes, arg.l.d, Hash(arg.l)))

DepthFromZuniq ==
    /\ Called("depth_from_zuniq")
    /\ ret' = depth_from_zuniq(nbytes, to_zuniq(nbytes, arg.l.d, Hash(arg.l)))

\* z.cmp(&zuniq), the order the entries are sorted and searched by
CmpZuniqs ==
    /\ Called("cmp")
    /\ ret' = Cmp(Zuniq(nbytes, arg.l), Zuniq(nbytes, arg.r))

AreOverlapping ==
    /\ Called("are_overlapping")
    /\ ret' = are_overlapping(nbytes, Zuniq(nbytes, arg.l), Zuniq(nbytes, arg.r))

NextCodec == ToZuniq \/ FromZuniq \/ DepthFromZuniq \/ CmpZuniqs \/ AreOverlapping

SpecCodec == InitCodec /\ [][NextCodec]_vars

-----------------------------------------------------------------------------
(* The map: a MomVecImpl is drawn (its depth and its entries, built from   *)
(* cells by to_zuniq, in any order, nested or not), a query cell is drawn, *)
(* the operations of the map are called.                                   *)

MaxEntries == 3

MomDepths(nb) == {0, 1, MAX_DEPTH(nb)}

\* the last base cell, two of its children and a deepest cell in each of
\* them; another base cell and its first deepest cell
MomCells(nb) ==
    CellsFrom(MomDepths(nb), {N_D0_CELLS - 1}, {1, 2}, {3})
        \cup CellsFrom({0, MAX_DEPTH(nb)}, {3}, {0}, {0})

EntriesOf(nb, cs) == [i \in 1 .. Len(cs) |-> [z |-> Zuniq(nb, cs[i]), v |-> i]]

Init ==
    /\ nbytes \in HashTypes
    /\ depth \in MomDepths(nbytes)
    /\ cells \in UNION {[1 .. n -> MomCells(nbytes)] : n \in 0 .. MaxEntries}
    /\ entries = EntriesOf(nbytes, cells)
    /\ \E q \in MomCells(nbytes) : arg = [l |-> q, r |-> q]
    /\ op = "none"
    /\ ret = <<>>

\* the zuniq of the query cell
Query == Zuniq(nbytes, arg.l)

GetCellContaining ==
    /\ Called("get_cell_containing")
    /\ ret' \in get_cell_containing(nbytes, depth, entries, Query)

GetCellContainingUnsafe ==
    /\ Called("get_cell_containing_unsafe")
    /\ ret' \in get_cell_containing_unsafe(nbytes, entries, Query)

GetOverlappedCells ==
    /\ Called("get_overlapped_cells")
    /\ ret' \in get_overlapped_cells(nbytes, entries, Query)

CheckZuniqDepthIsDepthMax ==
    /\ Called("check_zuniq_depth_is_depth_max")
    /\ ret' = check_zuniq_depth_is_depth_max(nbytes, depth, Query)

CheckIsMom ==
    /\ Called("check_is_mom")
    /\ ret' = check_is_mom(nbytes, depth, entries)

Next ==
    \/ GetCellContaining
    \/ GetCellContainingUnsafe
    \/ GetOverlappedCells
    \/ CheckZuniqDepthIsDepthMax
    \/ CheckIsMom

Spec == Init /\ [][Next]_vars

-----------------------------------------------------------------------------
(* Properties of the codec                                                 *)

\* arg.l is a proper ancestor of arg.r
LeftIsProperAncestor == IsPrefix(arg.l, arg.r) /\ arg.l.d < arg.r.d

\* C1: for both widths, every depth d in [0, MAX_DEPTH] and every hash h of
\* that depth, from_zuniq(to_zuniq(d, h)) = (d, h); to_zuniq(d, h) is not zero,
\* lies within the N_BITS bits of the word and holds every bit of h (the bits
\* of h and the sentinel bit).
C1_RoundTrip ==
    /\ op = "from_zuniq" => ret = <<arg.l.d, Hash(arg.l)>>
    /\ op = "to_zuniq" =>
          /\ ret # zero
          /\ ret \subseteq 0 .. (N_BITS(nbytes) - 1)
          /\ Cardinality(ret) = Cardinality(Hash(arg.l)) + 1

\* the round trip of the deepest cell of the last base cell, whose hash has
\* the highest bit a hash can have
C1_Witness ==
    /\ op = "from_zuniq"
    /\ nbytes = 8
    /\ arg.l.d = MAX_DEPTH(nbytes)
    /\ arg.l.b = N_D0_CELLS - 1
    /\ ret = <<arg.l.d, Hash(arg.l)>>

\* C2 as stated: the zuniq of a cell is strictly less than the zuniq of each
\* of its descendants.
C2_ParentLessThanDescendant ==
    (op = "cmp" /\ LeftIsProperAncestor) => ret = "Less"

\* C2 as amended: the zuniq of a cell differs from the zuniq of each of its
\* descendants; it is less than it exactly when the descendant lies in the
\* third or fourth child of the cell (first digit below the cell 2 or 3) and
\* greater when it lies in the first or second child.
C2_ParentBetweenChildren ==
    (op = "cmp" /\ LeftIsProperAncestor) =>
        ret = IF Digit(arg.r, arg.l.d + 1) \in {2, 3} THEN "Less" ELSE "Greater"

\* a descendant, many levels down, whose zuniq is below the zuniq of the cell
C2_Witness ==
    /\ op = "cmp"
    /\ LeftIsProperAncestor
    /\ arg.r.d > arg.l.d + 2
    /\ ret = "Greater"

\* C3: are_overlapping on the zuniqs of two valid cells is true exactly when
\* one cell is the other or an ancestor of it (so it is symmetric, true of a
\* cell and itself, false of two distinct cells of one depth).
C3_OverlapIffNested ==
    op = "are_overlapping" =>
        /\ ret = Nested(arg.l, arg.r)
        /\ ret = are_overlapping(nbytes, Zuniq(nbytes, arg.r), Zuniq(nbytes, arg.l))
        /\ arg.l = arg.r => ret
        /\ (arg.l.d = arg.r.d /\ arg.l # arg.r) => ~ret

\* a deep cell given first, an ancestor several levels above given second
C3_Witness ==
    /\ op = "are_overlapping"
    /\ arg.l.d > arg.r.d + 2
    /\ arg.r.d > 0
    /\ ret

-----------------------------------------------------------------------------
(* Properties of the map                                                   *)

\* the zuniqs of the entries are strictly ascending
Ascending ==
    \A i \in 1 .. (Len(entries) - 1) : WordLess(entries[i].z, entries[i + 1].z)

\* some two entries, adjacent or not, have nested cells
SomeOverlap ==
    \E i \in 1 .. Len(cells), j \in 1 .. Len(cells) : i < j /\ Nested(cells[i], cells[j])

\* some two consecutive entries have nested cells
SomeAdjacentOverlap ==
    \E i \in 1 .. (Len(cells) - 1) : Nested(cells[i], cells[i + 1])

DepthsAtMostDepthMax == \A i \in 1 .. Len(cells) : cells[i].d <= depth

ValidMom == Ascending /\ ~SomeOverlap /\ DepthsAtMostDepthMax

\* the positions (from 0) of the entries whose cell is the query cell or an
\* ancestor of it
Covering == {i \in 0 .. (Len(cells) - 1) : IsPrefix(cells[i + 1], arg.l)}

\* the positions (from 0) of the entries whose cell overlaps the query cell
Overlapped == {i \in 0 .. (Len(cells) - 1) : Nested(cells[i + 1], arg.l)}

\* the entries at the positions of P, in ascending order of position
RECURSIVE EntriesAt(_, _)
EntriesAt(P, from) ==
    IF from >= Len(entries) THEN <<>>
    ELSE (IF from \in P THEN <<At(entries, from)>> ELSE <<>>) \o EntriesAt(P, from + 1)

\* C4: on a valid map and a query cell of depth depth_max,
\* get_cell_containing_unsafe returns the one entry whose cell is the query
\* cell or an ancestor of it when there is one, and None when there is none.
C4_ContainingCell ==
    (op = "get_cell_containing_unsafe" /\ ValidMom /\ arg.l.d = depth) =>
        IF Covering = {}
        THEN ret = None
        ELSE \E i \in Covering : Covering = {i} /\ ret = Some(At(entries, i))

\* the entry returned is a proper ancestor of the query cell and lies right
\* of the insertion position (its zuniq is above the query's), after another
\* entry
C4_Witness ==
    /\ op = "get_cell_containing_unsafe"
    /\ ValidMom
    /\ arg.l.d = depth
    /\ Len(entries) >= 2
    /\ ret.tag = "Some"
    /\ WordLess(Query, ret.val.z)
    /\ ret.val = At(entries, 1)

\* C5: on a valid map (the empty one, one whose first entry overlaps the
\* query cell, any other) get_overlapped_cells does not fail and returns the
\* entries whose cell overlaps the query cell, all of them and only them, in
\* ascending order.
C5_OverlappedCellsReturned ==
    (op = "get_overlapped_cells" /\ ValidMom) => ret = Ok(EntriesAt(Overlapped, 0))

\* C6: check_is_mom accepts every valid map, also one with entries shallower
\* than depth_max.
C6_ValidMomAccepted ==
    (op = "check_is_mom" /\ ValidMom) => ret.tag = "Ok"

\* C7: check_is_mom returns an error when some entry, at whatever position,
\* is deeper than depth_max.
C7_DeeperEntryRejected ==
    (op = "check_is_mom" /\ ~DepthsAtMostDepthMax) => ret.tag = "Err"

\* C8: get_cell_containing returns the validation error exactly when the
\* depth of the query differs from depth_max, and otherwise Ok of a result of
\* get_cell_containing_unsafe; check_zuniq_depth_is_depth_max succeeds in
\* exactly the same cases.
C8_DepthValidated ==
    /\ op = "get_cell_containing" =>
          /\ ret.tag = "Err" <=> arg.l.d # depth
          /\ ret.tag = "Err" =>
                /\ ret.err.expected = depth
                /\ ret.err.actual = arg.l.d
                /\ ret = check_zuniq_depth_is_depth_max(nbytes, depth, Query)
          /\ ret.tag = "Ok" =>
                /\ ret.val \in get_cell_containing_unsafe(nbytes, entries, Query)
                /\ check_zuniq_depth_is_depth_max(nbytes, depth, Query).tag = "Ok"
    /\ op = "check_zuniq_depth_is_depth_max" => (ret.tag = "Ok" <=> arg.l.d = depth)

\* a query shallower than depth_max is refused, on a map that holds an
\* entry covering it
C8_Witness ==
    /\ op = "get_cell_containing"
    /\ arg.l.d < depth
    /\ Covering # {}
    /\ ret.tag = "Err"

\* C9: check_is_mom returns an error on every sequence that is not strictly
\* ascending or holds two entries, adjacent or not, with overlapping cells;
\* and a strictly ascending sequence that holds two overlapping entries holds
\* two consecutive overlapping entries.
C9_AdjacentPairsSuffice ==
    op = "check_is_mom" =>
        /\ (~Ascending \/ SomeOverlap) => ret.tag = "Err"
        /\ (Ascending /\ SomeOverlap) => SomeAdjacentOverlap

\* an ascending sequence whose first and last of three entries overlap is
\* refused for an overlap
C9_Witness ==
    /\ op = "check_is_mom"
    /\ Ascending
    /\ Len(cells) = 3
    /\ Nested(cells[1], cells[3])
    /\ ret.tag = "Err"
    /\ ret.err.kind = "Overlapping elements in the MOM"

\* P is a run of consecutive positions
IsRun(P) == \A i \in P, j \in P : \A k \in i .. j : k \in P

\* C10: on a valid map and a query cell of any depth, the positions of the
\* entries that overlap the query cell form one run, and the run holds the
\* position of the exact match or touches the insertion position the binary
\* search returns.
C10_OverlappedIsOneRun ==
    (op = "get_overlapped_cells" /\ ValidMom) =>
        /\ IsRun(Overlapped)
        /\ Overlapped # {} =>
              \A bs \in binary_search_by(entries, Query) :
                  IF bs.tag = "Ok"
                  THEN bs.val \in Overlapped
                  ELSE bs.err - 1 \in Overlapped \/ bs.err \in Overlapped

\* two entries overlap the query cell, one on each side of the insertion
\* position, next to an entry that does not
C10_Witness ==
    /\ op = "get_overlapped_cells"
    /\ ValidMom
    /\ Len(entries) = 3
    /\ Cardinality(Overlapped) = 2
    /\ Err(Min(Overlapped) + 1) \in binary_search_by(entries, Query)

====
